---- MODULE Spec2Model ----
(***************************************************************************)
(* Power meter logger: a passive tap on the TM1621B display bus.           *)
(*                                                                         *)
(* Two interrupt handlers (select_isr, clock_isr) assemble 17-bit words    *)
(* into a 32-slot ring, read_buffer; process_data_buffer scans the ring    *)
(* for the sixteen "write memory" words with addresses 0,2,..,30 and the   *)
(* four accessors decode the sixteen digit slots into voltage, current,    *)
(* power and energy.                                                       *)
(*                                                                         *)
(* A C float is written as the fraction it is computed from,               *)
(* [num, den]: -1.0 is [num |-> -1, den |-> 1] and voltage / 100.0 is      *)
(* [num |-> voltage, den |-> 100].  pow(10, n) is taken to be exact for    *)
(* n in 0..3.                                                              *)
(***************************************************************************)
EXTENDS Integers, Sequences, FiniteSets, TLC

VARIABLES
    read_buffer,    \* volatile uint32_t read_buffer[BUFFER_SIZE]
    buffer_idx,     \* volatile uint8_t buffer_idx: the ring's write cursor
    read_digit,     \* volatile uint8_t read_digit: bit index within a word
    clk_attached,   \* whether clock_isr is attached to CLK_PIN
    cs_pin,         \* level of the chip-select line (1 = deasserted)
    data_buffer,    \* uint32_t data_buffer[16]
    scan,           \* the frame of process_data_buffer (its locals and position)
    report,         \* what the last accessor calls returned
    bus,            \* the meter's side of the bus: what it sends next
    tag,            \* history: per ring slot, what was captured into it
    watch           \* history: what the interrupts did during the scan in progress

vars == <<read_buffer, buffer_idx, read_digit, clk_attached, cs_pin,
          data_buffer, scan, report, bus, tag, watch>>

isrVars == <<read_buffer, buffer_idx, read_digit, clk_attached, cs_pin>>

-----------------------------------------------------------------------------
(* Program constants *)

BUFFER_SIZE == 32

DATA_SLOTS == 16

WORD_BITS == 17

MSB == 16

WRITE_CMD == 5

LAST_ADDR == 30

Slots == 0 .. (BUFFER_SIZE - 1)

Digits == 0 .. (DATA_SLOTS - 1)

\* uint8_t data_digit_lut_1[2][10]: row 0 the digits, row 1 their patterns
data_digit_lut_1 ==
    << <<0, 1, 2, 3, 4, 5, 6, 7, 8, 9>>,
       <<117, 5, 83, 23, 39, 54, 118, 21, 119, 55>> >>

\* uint8_t data_digit_lut_2[2][10]
data_digit_lut_2 ==
    << <<0, 1, 2, 3, 4, 5, 6, 7, 8, 9>>,
       <<125, 5, 94, 79, 39, 107, 123, 69, 127, 111>> >>

-----------------------------------------------------------------------------
(* Bit arithmetic on unsigned integers *)

\* 2^n for the bit positions of a 32-bit value below the sign bit
Pow2(n) ==
    << 1, 2, 4, 8, 16, 32, 64, 128, 256, 512, 1024, 2048, 4096, 8192, 16384,
       32768, 65536, 131072, 262144, 524288, 1048576, 2097152, 4194304,
       8388608, 16777216, 33554432, 67108864, 134217728, 268435456,
       536870912, 1073741824 >>[n + 1]

\* pow(10, n)
Pow10(n) == << 1, 10, 100, 1000 >>[n + 1]

BitAt(w, s) == (w \div Pow2(s)) % 2

\* w & ((2^len - 1) << lo): the bits lo .. lo+len-1 of w, in place
Field(w, lo, len) == ((w \div Pow2(lo)) % Pow2(len)) * Pow2(lo)

\* w | (bit << s), for a single bit
OrBit(w, bit, s) == IF bit = 1 /\ BitAt(w, s) = 0 THEN w + Pow2(s) ELSE w

ShiftRight(w, s) == w \div Pow2(s)

-----------------------------------------------------------------------------
(* The bit sampler: the two interrupt handlers, as state transformers *)

\* (16-read_digit), the bit position one clock edge writes
ShiftOf(rd) == MSB - rd

\* clock_isr: OR the data line's level into the word at the cursor
\* A clock ISR that writes the slot before the cursor
clock_isr_Stray(rb, idx, rd, level) ==
    [read_buffer |-> [rb EXCEPT ![(idx + BUFFER_SIZE - 1) % BUFFER_SIZE] =
                                    OrBit(@, level, ShiftOf(rd))],
     read_digit  |-> (rd + 1) % 256]

clock_isr(rb, idx, rd, level) ==
    [read_buffer |-> [rb EXCEPT ![idx] = OrBit(@, level, ShiftOf(rd))],
     read_digit  |-> (rd + 1) % 256]

\* if (++buffer_idx >= BUFFER_SIZE) { buffer_idx = 0; }
\* A cursor that wraps one slot early
NextIdx_Early(idx) == IF idx + 1 >= BUFFER_SIZE - 1 THEN 0 ELSE idx + 1

NextIdx(idx) == IF idx + 1 >= BUFFER_SIZE THEN 0 ELSE idx + 1

\* select_isr, given the level digitalRead(CS_PIN) returns when it runs
\* A chip-select ISR that zeroes the slot after the cursor
select_isr_ZeroNext(rb, idx, rd, att, level) ==
    IF level = 0
    THEN [read_buffer  |-> [rb EXCEPT ![NextIdx(idx)] = 0],
          buffer_idx   |-> idx,
          read_digit   |-> 0,
          clk_attached |-> TRUE]
    ELSE [read_buffer  |-> rb,
          buffer_idx   |-> NextIdx(idx),
          read_digit   |-> rd,
          clk_attached |-> FALSE]

select_isr(rb, idx, rd, att, level) ==
    IF level = 0
    THEN [read_buffer  |-> [rb EXCEPT ![idx] = 0],
          buffer_idx   |-> idx,
          read_digit   |-> 0,
          clk_attached |-> TRUE]
    ELSE [read_buffer  |-> rb,
          buffer_idx   |-> NextIdx(idx),
          read_digit   |-> rd,
          clk_attached |-> FALSE]

-----------------------------------------------------------------------------
(* process_data_buffer: one step per read of the volatile read_buffer[i] *)

\* cmd = (read_buffer[i] & 0x0001C000) >> 14
CmdOf(w) == ShiftRight(Field(w, 14, 3), 14)

\* addr = (read_buffer[i] & 0x00003F00) >> 8
AddrOf(w) == ShiftRight(Field(w, 8, 6), 8)

\* read_buffer[i] & 0x77 for the first 8 packets, & 0xFF for the last 8
\* DataOf with the test addr < 14: packet 7 keeps its bits 3 and 7
DataOf_LateMask(addr, w) ==
    IF addr < 14 THEN Field(w, 0, 3) + Field(w, 4, 3) ELSE Field(w, 0, 8)

\* 0x77 is bits 0..2 and 4..6; 0xFF is bits 0..7
DataOf(addr, w) ==
    IF addr <= 14 THEN Field(w, 0, 3) + Field(w, 4, 3) ELSE Field(w, 0, 8)

\* Frame0 with data_start initialised to true
Frame0_Started(db) ==
    [pc |-> "cmd", i |-> 0, cmd |-> 0, addr |-> 0, expected_addr |-> 0,
     data_start |-> TRUE, data_idx |-> 0, success |-> FALSE, db |-> db]

\* The locals of process_data_buffer at its entry; db is data_buffer
Frame0(db) ==
    [pc |-> "cmd", i |-> 0, cmd |-> 0, addr |-> 0, expected_addr |-> 0,
     data_start |-> FALSE, data_idx |-> 0, success |-> FALSE, db |-> db]

\* i++ and the loop test i < BUFFER_SIZE
NextSlot(f) ==
    [f EXCEPT !.i = @ + 1,
              !.pc = IF f.i + 1 < BUFFER_SIZE THEN "cmd" ELSE "ret"]

\* ReadCmd taking every command with bit 2 set for a write
ReadCmd_From4(f, w) ==
    LET g == [f EXCEPT !.cmd = CmdOf(w)]
    IN  IF g.cmd >= 4 THEN [g EXCEPT !.pc = "addr"] ELSE NextSlot(g)

\* Lines 92-94: read the command field; skip the word unless it is 5
ReadCmd(f, w) ==
    LET g == [f EXCEPT !.cmd = CmdOf(w)]
    IN  IF g.cmd = WRITE_CMD THEN [g EXCEPT !.pc = "addr"] ELSE NextSlot(g)

\* ReadAddr with `continue` in place of `break` at a mismatch
ReadAddr_SkipMismatch(f, w) ==
    LET a == AddrOf(w)
        g == [f EXCEPT !.addr = a, !.data_start = (@ \/ a = 0)]
    IN  IF ~g.data_start THEN NextSlot(g)
        ELSE IF a # g.expected_addr
             THEN NextSlot(g)
             ELSE [g EXCEPT !.expected_addr = @ + 2, !.pc = "data"]

\* Lines 96-107: read the address, start at address 0, validate
ReadAddr(f, w) ==
    LET a == AddrOf(w)
        g == [f EXCEPT !.addr = a, !.data_start = (@ \/ a = 0)]
    IN  IF ~g.data_start THEN NextSlot(g)
        ELSE IF a # g.expected_addr
             THEN [g EXCEPT !.success = FALSE, !.pc = "ret"]
             ELSE [g EXCEPT !.expected_addr = @ + 2, !.pc = "data"]

\* ReadData without data_idx++
ReadData_KeepIdx(f, w) ==
    LET g == [f EXCEPT !.db = [@ EXCEPT ![f.data_idx] = DataOf(f.addr, w)]]
    IN  IF g.addr = LAST_ADDR
        THEN [g EXCEPT !.success = TRUE, !.pc = "ret"]
        ELSE NextSlot(g)

\* Lines 110-125: store the masked data, stop with success at address 30
ReadData(f, w) ==
    LET g == [f EXCEPT !.db = [@ EXCEPT ![f.data_idx] = DataOf(f.addr, w)],
                       !.data_idx = (@ + 1) % 256]
    IN  IF g.addr = LAST_ADDR
        THEN [g EXCEPT !.success = TRUE, !.pc = "ret"]
        ELSE NextSlot(g)

ScanStep(f, w) ==
    CASE f.pc = "cmd"  -> ReadCmd(f, w)
      [] f.pc = "addr" -> ReadAddr(f, w)
      [] f.pc = "data" -> ReadData(f, w)
      [] OTHER         -> f

RECURSIVE RunScan(_, _)
RunScan(f, rb) ==
    IF f.pc = "ret" THEN f ELSE RunScan(ScanStep(f, rb[f.i]), rb)

\* The whole call, with no interrupt during it: the frame at its return
process_data_buffer(rb, db) == RunScan(Frame0(db), rb)

-----------------------------------------------------------------------------
(* The digit decoder: the four accessors *)

MinusOne == [num |-> -1, den |-> 1]

\* LutSum with the loop test j < 9: the last table entry is never compared
RECURSIVE LutSum_Short(_, _, _)
LutSum_Short(lut, pattern, j) ==
    IF j > 9 THEN 0
    ELSE (IF pattern = lut[2][j] THEN lut[1][j] ELSE 0)
            + LutSum_Short(lut, pattern, j + 1)

\* The inner loop over j: every table entry that matches adds its digit
RECURSIVE LutSum(_, _, _)
LutSum(lut, pattern, j) ==
    IF j > 10 THEN 0
    ELSE (IF pattern = lut[2][j] THEN lut[1][j] ELSE 0) + LutSum(lut, pattern, j + 1)

\* voltage_acc with the weights of slots 0 and 1 exchanged
voltage_acc_Swapped(db) ==
    (LutSum(data_digit_lut_1, db[0], 1) * Pow10(2)
     + LutSum(data_digit_lut_1, db[1], 1) * Pow10(3)
     + LutSum(data_digit_lut_1, db[2], 1) * Pow10(1)
     + LutSum(data_digit_lut_1, db[3], 1) * Pow10(0))

\* voltage: slots 0..3 against data_digit_lut_1
voltage_acc(db) ==
    (LutSum(data_digit_lut_1, db[0], 1) * Pow10(3)
     + LutSum(data_digit_lut_1, db[1], 1) * Pow10(2)
     + LutSum(data_digit_lut_1, db[2], 1) * Pow10(1)
     + LutSum(data_digit_lut_1, db[3], 1) * Pow10(0))

\* current: slots 4..7 against data_digit_lut_1
current_acc(db) ==
    (LutSum(data_digit_lut_1, db[4], 1) * Pow10(3)
     + LutSum(data_digit_lut_1, db[5], 1) * Pow10(2)
     + LutSum(data_digit_lut_1, db[6], 1) * Pow10(1)
     + LutSum(data_digit_lut_1, db[7], 1) * Pow10(0))

\* power: slots 8..11, shifted right by one, against data_digit_lut_2
power_acc(db) ==
    (LutSum(data_digit_lut_2, ShiftRight(db[8], 1), 1) * Pow10(3)
     + LutSum(data_digit_lut_2, ShiftRight(db[9], 1), 1) * Pow10(2)
     + LutSum(data_digit_lut_2, ShiftRight(db[10], 1), 1) * Pow10(1)
     + LutSum(data_digit_lut_2, ShiftRight(db[11], 1), 1) * Pow10(0))

\* energy: slots 12..15, shifted right by one, against data_digit_lut_2
energy_acc(db) ==
    (LutSum(data_digit_lut_2, ShiftRight(db[12], 1), 1) * Pow10(3)
     + LutSum(data_digit_lut_2, ShiftRight(db[13], 1), 1) * Pow10(2)
     + LutSum(data_digit_lut_2, ShiftRight(db[14], 1), 1) * Pow10(1)
     + LutSum(data_digit_lut_2, ShiftRight(db[15], 1), 1) * Pow10(0))

INT32_MAX == 2147483647

\* uint32_t to int32_t: a value above INT32_MAX wraps to a negative one
ToInt32(u) == IF u > INT32_MAX THEN (u - INT32_MAX) - INT32_MAX - 2 ELSE u

\* Each accessor, given the frame process_data_buffer returned with
get_voltage(f) ==
    IF ~f.success THEN MinusOne ELSE [num |-> voltage_acc(f.db), den |-> 100]

\* get_current dividing by 10.0
get_current_Tenths(f) ==
    IF ~f.success THEN MinusOne ELSE [num |-> current_acc(f.db), den |-> 10]

get_current(f) ==
    IF ~f.success THEN MinusOne ELSE [num |-> current_acc(f.db), den |-> 100]

get_power(f) ==
    IF ~f.success THEN MinusOne
    ELSE IF BitAt(f.db[10], 0) # 0
         THEN [num |-> power_acc(f.db), den |-> 10]
         ELSE [num |-> power_acc(f.db), den |-> 1]

\* get_energy taking the kilo flag from slot 14
get_energy_Flag14(f) ==
    IF ~f.success THEN -1
    ELSE IF BitAt(f.db[14], 0) # 0
         THEN ToInt32(energy_acc(f.db) * 1000)
         ELSE ToInt32(energy_acc(f.db))

get_energy(f) ==
    IF ~f.success THEN -1
    ELSE IF BitAt(f.db[15], 0) # 0
         THEN ToInt32(energy_acc(f.db) * 1000)
         ELSE ToInt32(energy_acc(f.db))

-----------------------------------------------------------------------------
(* Words on the bus *)

\* | 3 bit packet type | 6 bit memory address | 4 bit data | 4 bit data |
Word(cmd, addr, data) == cmd * Pow2(14) + addr * Pow2(8) + data

IsWrite(w) == CmdOf(w) = WRITE_CMD

\* The data byte the model's meter sends in packet k of a sequence: bits 3
\* and 7 are set in every one of them
SeqData(k) == 255 - k

SeqWord(k) == Word(WRITE_CMD, 2 * k, SeqData(k))

\* Words that are no part of a sequence: a write to address 0, a write to
\* address 6, a write to address 30, and a word of another command
NoiseWords ==
    { Word(WRITE_CMD, 0, 170), Word(WRITE_CMD, 6, 85),
      Word(WRITE_CMD, 30, 1), Word(4, 0, 255) }

\* What fills the slots around a sequence
Fillers == { 0, Word(4, 2, 129), Word(WRITE_CMD, 6, 85) }

-----------------------------------------------------------------------------
(* Bounds *)

\* Slots of a buffer overwritten with a noise word
MaxNoise == 1

\* Length of the gap inside a sequence that is not stored contiguously
MaxGap == 2

\* Last start slot of the sequences that noise words are written over
MaxStart == 2

-----------------------------------------------------------------------------
(* The frame buffers the scan is applied to *)

\* The sequence in slots o .. o+15, with `len` filler slots before packet g
Layout(o, g, len, fill) ==
    [s \in Slots |->
        LET k == IF s - o < g THEN s - o ELSE s - o - len
        IN  IF s >= o /\ s - o < DATA_SLOTS + len
               /\ (s - o < g \/ s - o >= g + len)
            THEN SeqWord(k)
            ELSE fill]

RECURSIVE Noised(_, _)
Noised(S, n) ==
    IF n = 0 THEN S
    ELSE LET T == Noised(S, n - 1)
         IN  T \cup { [b EXCEPT ![p] = w] : b \in T, p \in Slots, w \in NoiseWords }

Contiguous ==
    { Layout(o, 0, 0, 0) : o \in 0 .. (BUFFER_SIZE - DATA_SLOTS) }
       \cup Noised({ Layout(o, 0, 0, 0) : o \in 0 .. MaxStart }, MaxNoise)

Gapped ==
    UNION { UNION { { Layout(o, g, len, fill) :
                        o \in 0 .. (BUFFER_SIZE - DATA_SLOTS - len) } :
                    g \in 1 .. (DATA_SLOTS - 1) } :
            len \in 1 .. MaxGap, fill \in Fillers }

\* The pattern of digit d in a table; 10 stands for a blank digit (no segment
\* driven), which is in neither table
PatternOf(lut, d) == IF d < 10 THEN lut[2][d + 1] ELSE 0

\* The sixteen data bytes of a display showing the digits v, c, p, e; x = 1
\* also sets the bits that are no segment of a digit: bits 3 and 7 of the
\* voltage and current bytes, bit 0 of the power and energy bytes
DisplayByte(k, v, c, p, e, x) ==
    CASE k < 4  -> PatternOf(data_digit_lut_1, v[k + 1]) + 136 * x
      [] k < 8  -> PatternOf(data_digit_lut_1, c[k - 3]) + 136 * x
      [] k < 12 -> 2 * PatternOf(data_digit_lut_2, p[k - 7]) + x
      [] OTHER  -> 2 * PatternOf(data_digit_lut_2, e[k - 11]) + x

DisplayBuffer(v, c, p, e, x) ==
    [s \in Slots |->
        IF s < DATA_SLOTS
        THEN Word(WRITE_CMD, 2 * s, DisplayByte(s, v, c, p, e, x))
        ELSE 0]

\* A display of 12.05 V, 1.23 A, 45.6 W (decimal point on) and 789 Wh (kilo
\* flag off)
ExampleDisplay ==
    [shown |-> FALSE, v |-> <<1, 2, 0, 5>>, c |-> <<0, 1, 2, 3>>,
     p |-> <<0, 4, 5, 6>>, e |-> <<0, 7, 8, 9>>, x |-> 0]

ExampleBuffer ==
    [s \in Slots |->
        IF s >= DATA_SLOTS THEN 0
        ELSE Word(WRITE_CMD, 2 * s,
                  DisplayByte(s, ExampleDisplay.v, ExampleDisplay.c,
                              ExampleDisplay.p, ExampleDisplay.e, 0)
                     + (IF s = 10 THEN 1 ELSE 0))]

DigitOrBlank == 0 .. 10

Quads == DigitOrBlank \X DigitOrBlank \X DigitOrBlank \X DigitOrBlank

Rev(q) == <<q[4], q[3], q[2], q[1]>>

Rot(q) == <<q[2], q[3], q[4], q[1]>>

Swp(q) == <<q[2], q[1], q[4], q[3]>>

\* What the display shows, for the buffers built from digits
NoDisplay == [shown |-> FALSE, v |-> <<0, 0, 0, 0>>, c |-> <<0, 0, 0, 0>>,
              p |-> <<0, 0, 0, 0>>, e |-> <<0, 0, 0, 0>>, x |-> 0]

Display(q, x) == [shown |-> TRUE, v |-> q, c |-> Rev(q), p |-> Rot(q),
                  e |-> Swp(q), x |-> x]

-----------------------------------------------------------------------------
(* The reporting loop, with no bus activity *)

Report0 == [done |-> FALSE, voltage |-> MinusOne, current |-> MinusOne,
            power |-> MinusOne, energy |-> -1]

\* Of each slot: the burst its last capture belonged to and the clock edges
\* sampled into it (burst 0: never written)
NoTag == [s \in Slots |-> [burst |-> 0, bits |-> 0]]

NoWatch == [on |-> FALSE, by |-> ""]

InitScan ==
    /\ \/ /\ read_buffer \in (Contiguous \cup Gapped)
          /\ bus = NoDisplay
       \/ \E q \in Quads, x \in 0 .. 1 :
            /\ read_buffer = DisplayBuffer(q, Rev(q), Rot(q), Swp(q), x)
            /\ bus = Display(q, x)
       \/ /\ read_buffer = ExampleBuffer
          /\ bus = ExampleDisplay
    /\ buffer_idx = 0
    /\ read_digit = 0
    /\ clk_attached = FALSE
    /\ cs_pin = 1
    /\ data_buffer = [k \in Digits |-> 0]
    /\ scan = Frame0(data_buffer)
    /\ report = Report0
    /\ tag = NoTag
    /\ watch = NoWatch

\* loop(): get_voltage, get_current, get_power and get_energy in turn, each
\* calling process_data_buffer on the frame buffer as it is and leaving its
\* stores in data_buffer; scan is the frame of the last of the four calls
LoopResult(rb, db) ==
    LET f1 == process_data_buffer(rb, db)
        f2 == process_data_buffer(rb, f1.db)
        f3 == process_data_buffer(rb, f2.db)
        f4 == process_data_buffer(rb, f3.db)
    IN  [frame  |-> f4,
         report |-> [done |-> TRUE, voltage |-> get_voltage(f1),
                     current |-> get_current(f2), power |-> get_power(f3),
                     energy |-> get_energy(f4)]]

loop ==
    /\ ~report.done
    /\ \E r \in {LoopResult(read_buffer, data_buffer)} :
          /\ scan' = r.frame
          /\ data_buffer' = r.frame.db
          /\ report' = r.report
    /\ UNCHANGED <<isrVars, bus, tag, watch>>

NextScan == loop

SpecScan == InitScan /\ [][NextScan]_vars

-----------------------------------------------------------------------------
(* The scan alone, over sequences with and without a gap *)

InitSkip ==
    /\ read_buffer \in
          ({ Layout(o, 0, 0, 0) : o \in 0 .. (BUFFER_SIZE - DATA_SLOTS) }
              \cup Gapped)
    /\ bus = NoDisplay
    /\ buffer_idx = 0
    /\ read_digit = 0
    /\ clk_attached = FALSE
    /\ cs_pin = 1
    /\ data_buffer = [k \in Digits |-> 0]
    /\ scan = Frame0(data_buffer)
    /\ report = Report0
    /\ tag = NoTag
    /\ watch = NoWatch

SpecSkip == InitSkip /\ [][NextScan]_vars

-----------------------------------------------------------------------------
(* The meter's side of the bus *)

\* Packet k of burst b: the display memory changes between bursts, here in
\* bit 6 of every data byte, which every second burst flips
MeterWord(b, k) ==
    Word(WRITE_CMD, 2 * k, SeqData(k) - 64 * ((b \div 2) % 2))

\* A command-mode word of the display driver: type 100, nine command bits,
\* twelve clock edges in all
COMMAND_BITS == 12

CommandWord == Word(4, 0, 96)

Meter0 == [shown |-> FALSE, k |-> 0, burst |-> 1, n |-> 0, glitches |-> 0,
           stalled |-> FALSE, j |-> 0, irqs |-> 0]

\* The meter after packet k of its burst has gone out
Sent(m) ==
    [m EXCEPT !.k = (m.k + 1) % DATA_SLOTS,
              !.burst = IF m.k + 1 = DATA_SLOTS THEN m.burst + 1 ELSE m.burst,
              !.n = m.n + 1]

\* n rising clock edges, the data line carrying the bits of w from bit 16 down
RECURSIVE Clocked(_, _, _, _, _, _)
Clocked(rb, idx, rd, w, j, n) ==
    IF j >= n THEN [read_buffer |-> rb, read_digit |-> rd]
    ELSE LET c == clock_isr(rb, idx, rd, BitAt(w, MSB - j))
         IN  Clocked(c.read_buffer, idx, c.read_digit, w, j + 1, n)

\* Chip select falls, n clock edges, chip select still low
Opened(rb, idx, rd, att, w, n) ==
    LET a == select_isr(rb, idx, rd, att, 0)
        c == Clocked(a.read_buffer, a.buffer_idx, a.read_digit, w, 0, n)
    IN  [read_buffer |-> c.read_buffer, buffer_idx |-> a.buffer_idx,
         read_digit |-> c.read_digit, clk_attached |-> a.clk_attached]

\* A whole transaction: chip select falls, n clock edges, chip select rises
Transaction(rb, idx, rd, att, w, n) ==
    LET o == Opened(rb, idx, rd, att, w, n)
    IN  select_isr(o.read_buffer, o.buffer_idx, o.read_digit,
                   o.clk_attached, 1)

SetIsr(r) ==
    /\ read_buffer' = r.read_buffer
    /\ buffer_idx' = r.buffer_idx
    /\ read_digit' = r.read_digit
    /\ clk_attached' = r.clk_attached

-----------------------------------------------------------------------------
(* Bounds of the bus histories *)

\* Transactions of a history
MaxTx == 34

\* Transactions of a history that are no clean 17-bit write
MaxGlitch == 1

-----------------------------------------------------------------------------
(* Whole transactions between two runs of the main loop *)

Idle == cs_pin = 1 /\ ~bus.stalled /\ bus.n < MaxTx

\* A clean 17-bit write of the next packet
CaptureClean ==
    /\ Idle
    /\ SetIsr(Transaction(read_buffer, buffer_idx, read_digit, clk_attached,
                          MeterWord(bus.burst, bus.k), WORD_BITS))
    /\ tag' = [tag EXCEPT ![buffer_idx] =
                              [burst |-> bus.burst, bits |-> WORD_BITS]]
    /\ bus' = Sent(bus)
    /\ UNCHANGED <<cs_pin, data_buffer, scan, report, watch>>

\* The next packet with only its first n bits clocked in
CaptureShort(n) ==
    /\ Idle
    /\ bus.glitches < MaxGlitch
    /\ SetIsr(Transaction(read_buffer, buffer_idx, read_digit, clk_attached,
                          MeterWord(bus.burst, bus.k), n))
    /\ tag' = [tag EXCEPT ![buffer_idx] = [burst |-> bus.burst, bits |-> n]]
    /\ bus' = [Sent(bus) EXCEPT !.glitches = @ + 1]
    /\ UNCHANGED <<cs_pin, data_buffer, scan, report, watch>>

\* A command-mode word between two packets
CaptureCommand ==
    /\ Idle
    /\ bus.glitches < MaxGlitch
    /\ SetIsr(Transaction(read_buffer, buffer_idx, read_digit, clk_attached,
                          CommandWord, COMMAND_BITS))
    /\ tag' = [tag EXCEPT ![buffer_idx] =
                              [burst |-> bus.burst, bits |-> COMMAND_BITS]]
    /\ bus' = [bus EXCEPT !.n = @ + 1, !.glitches = @ + 1]
    /\ UNCHANGED <<cs_pin, data_buffer, scan, report, watch>>

\* Chip select falls, n bits of the next packet are clocked in, and chip
\* select never rises again
Stall(n) ==
    /\ Idle
    /\ bus.glitches < MaxGlitch
    /\ SetIsr(Opened(read_buffer, buffer_idx, read_digit, clk_attached,
                     MeterWord(bus.burst, bus.k), n))
    /\ cs_pin' = 0
    /\ tag' = [tag EXCEPT ![buffer_idx] = [burst |-> bus.burst, bits |-> n]]
    /\ bus' = [bus EXCEPT !.stalled = TRUE, !.j = n, !.glitches = @ + 1]
    /\ UNCHANGED <<data_buffer, scan, report, watch>>

InitWords ==
    /\ read_buffer = [s \in Slots |-> 0]
    /\ buffer_idx = 0
    /\ read_digit = 0
    /\ clk_attached = FALSE
    /\ cs_pin = 1
    /\ data_buffer = [k \in Digits |-> 0]
    /\ scan = Frame0(data_buffer)
    /\ report = Report0
    /\ bus = Meter0
    /\ tag = NoTag
    /\ watch = NoWatch

\* The histories of transactions that end with one run of loop()
NextWords ==
    \/ ~report.done /\ CaptureClean
    \/ ~report.done /\ (\E n \in 0 .. (WORD_BITS - 1) : CaptureShort(n))
    \/ ~report.done /\ CaptureCommand
    \/ ~report.done /\ (\E n \in 0 .. WORD_BITS : Stall(n))
    \/ loop

SpecWords == InitWords /\ [][NextWords]_vars

-----------------------------------------------------------------------------
(* Interrupts during a scan *)

\* Interrupt service routines run one by one in a history
MaxIrq == 19

\* What is remembered of a call of process_data_buffer: the frame buffer and
\* data_buffer at the call, the slots the ISRs wrote during the scan, whether
\* an ISR wrote the slot under examination after its command field was read,
\* and whether a digit was stored from such a slot or from the slot of a
\* transaction in progress
Watch0(rb, db) ==
    [on |-> TRUE, by |-> "", rb0 |-> rb, db0 |-> db, written |-> {},
     dirty |-> FALSE, torn |-> FALSE]

\* An ISR writes slot s
Wrote(s) ==
    IF watch.on /\ scan.pc # "ret"
    THEN [watch EXCEPT !.written = @ \cup {s},
                       !.dirty = (@ \/ (s = scan.i /\ scan.pc # "cmd"))]
    ELSE watch

Fine == bus.irqs < MaxIrq /\ ~bus.stalled

\* Chip select falls: select_isr runs with the pin low
CsFall ==
    /\ Fine
    /\ cs_pin = 1
    /\ cs_pin' = 0
    /\ SetIsr(select_isr(read_buffer, buffer_idx, read_digit, clk_attached, 0))
    /\ tag' = [tag EXCEPT ![buffer_idx] = [burst |-> bus.burst, bits |-> 0]]
    /\ bus' = [bus EXCEPT !.j = 0, !.irqs = @ + 1]
    /\ watch' = Wrote(buffer_idx)
    /\ UNCHANGED <<data_buffer, scan, report>>

\* A rising clock edge with the next bit of the packet on the data line
ClockEdge ==
    /\ Fine
    /\ cs_pin = 0
    /\ clk_attached
    /\ bus.j < WORD_BITS
    /\ \E c \in {clock_isr(read_buffer, buffer_idx, read_digit,
                           BitAt(MeterWord(bus.burst, bus.k), MSB - bus.j))} :
          /\ read_buffer' = c.read_buffer
          /\ read_digit' = c.read_digit
    /\ tag' = [tag EXCEPT ![buffer_idx].bits = @ + 1]
    /\ bus' = [bus EXCEPT !.j = @ + 1, !.irqs = @ + 1]
    /\ watch' = Wrote(buffer_idx)
    /\ UNCHANGED <<buffer_idx, clk_attached, cs_pin, data_buffer, scan, report>>

\* Chip select rises after the seventeenth bit: select_isr runs with the pin
\* high
CsRise ==
    /\ Fine
    /\ cs_pin = 0
    /\ bus.j = WORD_BITS
    /\ cs_pin' = 1
    /\ SetIsr(select_isr(read_buffer, buffer_idx, read_digit, clk_attached, 1))
    /\ bus' = [Sent(bus) EXCEPT !.j = 0, !.irqs = @ + 1]
    /\ UNCHANGED <<data_buffer, scan, report, tag, watch>>

\* An accessor calls process_data_buffer
Call ==
    /\ ~report.done
    /\ ~watch.on
    /\ scan' = Frame0(data_buffer)
    /\ watch' = Watch0(read_buffer, data_buffer)
    /\ UNCHANGED <<isrVars, data_buffer, report, bus, tag>>

\* One read of the slot under examination and what follows it up to the next
\* read
Step ==
    /\ watch.on
    /\ scan.pc # "ret"
    /\ scan' = ScanStep(scan, read_buffer[scan.i])
    /\ data_buffer' = scan'.db
    /\ watch' = [watch EXCEPT
                   !.dirty = (@ /\ scan.pc # "cmd"),
                   !.torn = (@ \/ (scan.pc = "data"
                                   /\ (watch.dirty
                                       \/ tag[scan.i].bits < WORD_BITS)))]
    /\ UNCHANGED <<isrVars, report, bus, tag>>

Accessors == {"voltage", "current", "power", "energy"}

Returned(a, f) ==
    CASE a = "voltage" -> get_voltage(f)
      [] a = "current" -> get_current(f)
      [] a = "power"   -> get_power(f)
      [] OTHER         -> get_energy(f)

\* process_data_buffer returns to the accessor a that called it, and a returns
Return(a) ==
    /\ watch.on
    /\ scan.pc = "ret"
    /\ report' = [Report0 EXCEPT !.done = TRUE, ![a] = Returned(a, scan)]
    /\ watch' = [watch EXCEPT !.on = FALSE, !.by = a]
    /\ UNCHANGED <<isrVars, data_buffer, scan, bus, tag>>

\* Whole transactions, then one call of an accessor with the ISRs running
\* between its steps
NextBus ==
    \/ ~watch.on /\ ~report.done /\ bus.irqs = 0 /\ CaptureClean
    \/ CsFall
    \/ ClockEdge
    \/ CsRise
    \/ Call
    \/ Step
    \/ \E a \in Accessors : Return(a)

SpecBus == InitWords /\ [][NextBus]_vars

-----------------------------------------------------------------------------
(* Clock edges beyond the seventeenth *)

\* Clock edges of one chip-select-low interval beyond the seventeenth
MaxExtra == 1

\* The bit positions a left shift by a negative amount may land on, as far
\* as the integers of the model reach; bit 31, where a shifter that takes the
\* amount modulo 32 puts the first of them, is beyond these
ShiftedTo == 0 .. 30

\* One run of clock_isr with any bit index: from the eighteenth edge of an
\* interval on the shift amount 16 - read_digit is negative and the shift is
\* undefined; the slot is left as it is or gets a bit somewhere
clock_isr_any(rb, idx, rd, level) ==
    IF rd <= MSB THEN { clock_isr(rb, idx, rd, level) }
    ELSE { [read_buffer |-> b, read_digit |-> (rd + 1) % 256] :
             b \in { rb } \cup { [rb EXCEPT ![idx] = OrBit(@, 1, p)] :
                                   p \in ShiftedTo } }

\* A rising clock edge after the seventeenth, chip select still low
ExtraEdge ==
    /\ ~bus.stalled
    /\ cs_pin = 0
    /\ clk_attached
    /\ bus.j >= WORD_BITS
    /\ bus.j < WORD_BITS + MaxExtra
    /\ \E level \in 0 .. 1 :
          \E c \in clock_isr_any(read_buffer, buffer_idx, read_digit, level) :
              /\ read_buffer' = c.read_buffer
              /\ read_digit' = c.read_digit
    /\ tag' = [tag EXCEPT ![buffer_idx].bits = @ + 1]
    /\ bus' = [bus EXCEPT !.j = @ + 1, !.irqs = @ + 1]
    /\ UNCHANGED <<buffer_idx, clk_attached, cs_pin, data_buffer, scan,
                   report, watch>>

\* Chip select rises after any number of clock edges but seventeen
CsRiseOff ==
    /\ ~bus.stalled
    /\ cs_pin = 0
    /\ bus.j # WORD_BITS
    /\ bus.glitches < MaxGlitch
    /\ cs_pin' = 1
    /\ SetIsr(select_isr(read_buffer, buffer_idx, read_digit, clk_attached, 1))
    /\ bus' = [Sent(bus) EXCEPT !.j = 0, !.irqs = @ + 1, !.glitches = @ + 1]
    /\ UNCHANGED <<data_buffer, scan, report, tag, watch>>

\* Transactions of any length, every edge handled as it comes
NextEdges ==
    \/ CsFall
    \/ ClockEdge
    \/ ExtraEdge
    \/ CsRise
    \/ CsRiseOff

SpecEdges == InitWords /\ [][NextEdges]_vars

-----------------------------------------------------------------------------
(* Edges and the handlers that run after them *)

\* Edges on the chip-select and clock lines in a history
MaxLineEvents == 5

\* Handler runs a line can have waiting
MaxPending == 2

\* The lines: what the meter has sent, and the handler runs that are waiting
Pins0 ==
    [shown |-> FALSE, k |-> 0, burst |-> 1, n |-> 0, glitches |-> 0,
     stalled |-> FALSE, j |-> 0, irqs |-> 0, events |-> 0, cs_pending |-> 0,
     clk_pending |-> 0, data |-> 0]

\* stray: the clock handler has run while chip select was high
PinWatch0 == [on |-> FALSE, by |-> "", stray |-> FALSE]

InitPins ==
    /\ read_buffer = [s \in Slots |-> 0]
    /\ buffer_idx = 0
    /\ read_digit = 0
    /\ clk_attached = FALSE
    /\ cs_pin = 1
    /\ data_buffer = [k \in Digits |-> 0]
    /\ scan = Frame0(data_buffer)
    /\ report = Report0
    /\ bus = Pins0
    /\ tag = NoTag
    /\ watch = PinWatch0

\* The chip-select line changes level; a run of select_isr is due, or the
\* edge merges with one that is still waiting
PinCsEdge ==
    /\ bus.events < MaxLineEvents
    /\ cs_pin' = 1 - cs_pin
    /\ \E q \in { IF bus.cs_pending < MaxPending THEN bus.cs_pending + 1
                  ELSE bus.cs_pending,
                  IF bus.cs_pending = 0 THEN 1 ELSE bus.cs_pending } :
          bus' = IF cs_pin = 1
                 THEN [bus EXCEPT !.events = @ + 1, !.cs_pending = q, !.j = 0]
                 ELSE [Sent(bus) EXCEPT !.events = @ + 1, !.cs_pending = q]
    /\ tag' = IF cs_pin = 1
              THEN [tag EXCEPT ![bus.n % BUFFER_SIZE] =
                                   [burst |-> bus.burst, bits |-> 0]]
              ELSE tag
    /\ UNCHANGED <<read_buffer, buffer_idx, read_digit, clk_attached,
                   data_buffer, scan, report, watch>>

\* The clock line rises, the data line carrying the next bit of the packet
\* while chip select is low; a run of clock_isr is due if it is attached
PinClkEdge ==
    /\ bus.events < MaxLineEvents
    /\ bus.j < WORD_BITS
    /\ bus' = [bus EXCEPT
                 !.events = @ + 1,
                 !.j = IF cs_pin = 0 THEN @ + 1 ELSE @,
                 !.data = IF cs_pin = 0
                          THEN BitAt(MeterWord(bus.burst, bus.k), MSB - bus.j)
                          ELSE 1,
                 !.clk_pending = IF clk_attached THEN 1 ELSE @]
    /\ tag' = IF cs_pin = 0
              THEN [tag EXCEPT ![bus.n % BUFFER_SIZE].bits = @ + 1]
              ELSE tag
    /\ UNCHANGED <<read_buffer, buffer_idx, read_digit, clk_attached, cs_pin,
                   data_buffer, scan, report, watch>>

\* select_isr runs and reads the chip-select pin as it is now; detaching the
\* clock handler drops a run of it that was waiting
RunSelect ==
    /\ bus.cs_pending > 0
    /\ SetIsr(select_isr(read_buffer, buffer_idx, read_digit, clk_attached,
                         cs_pin))
    /\ bus' = [bus EXCEPT !.cs_pending = @ - 1, !.irqs = @ + 1,
                          !.clk_pending = IF cs_pin = 1 THEN 0 ELSE @]
    /\ UNCHANGED <<cs_pin, data_buffer, scan, report, tag, watch>>

\* clock_isr runs and reads the data pin as it is now
RunClock ==
    /\ bus.clk_pending > 0
    /\ clk_attached
    /\ \E c \in clock_isr_any(read_buffer, buffer_idx, read_digit, bus.data) :
          /\ read_buffer' = c.read_buffer
          /\ read_digit' = c.read_digit
    /\ bus' = [bus EXCEPT !.clk_pending = 0, !.irqs = @ + 1]
    /\ watch' = [watch EXCEPT !.stray = (@ \/ cs_pin = 1)]
    /\ UNCHANGED <<buffer_idx, clk_attached, cs_pin, data_buffer, scan,
                   report, tag>>

NextPins ==
    \/ PinCsEdge
    \/ PinClkEdge
    \/ RunSelect
    \/ RunClock

SpecPins == InitPins /\ [][NextPins]_vars

-----------------------------------------------------------------------------
(* Clean transactions after an arbitrary history *)

\* What a history may have left in the frame buffer
StaleBuffers ==
    { [s \in Slots |-> 0],
      [s \in Slots |-> Word(WRITE_CMD, 0, 170)],
      [s \in Slots |-> Word(WRITE_CMD, 6, 85)],
      Layout(5, 0, 0, Word(WRITE_CMD, 30, 1)) }

\* ... and in the bit index
StaleDigits == {0, 5, WORD_BITS, 255}

InitHeal ==
    /\ read_buffer \in StaleBuffers
    /\ buffer_idx \in Slots
    /\ read_digit \in StaleDigits
    /\ clk_attached = FALSE
    /\ cs_pin = 1
    /\ data_buffer = [k \in Digits |-> 0]
    /\ scan = Frame0(data_buffer)
    /\ report = Report0
    /\ bus = Meter0
    /\ tag = NoTag
    /\ watch = NoWatch

NextHeal ==
    \/ ~report.done /\ CaptureClean
    \/ loop

SpecHeal == InitHeal /\ [][NextHeal]_vars

-----------------------------------------------------------------------------
(* The packet layout of the data model, used to state the claims *)

CmdField(w) == (w \div 16384) % 8

AddrField(w) == (w \div 256) % 64

DataField(w) == w % 256

WriteAt(rb, s) == CmdField(rb[s]) = 5

\* The digit slot value of packet k: the data byte, without bits 3 and 7 for
\* the first eight packets
SlotValue(k, w) ==
    IF k < 8
    THEN DataField(w) - 8 * ((DataField(w) \div 8) % 2) - 128 * (DataField(w) \div 128)
    ELSE DataField(w)

Min(S) == CHOOSE x \in S : \A y \in S : x <= y

\* The slots holding a write to address 0
StartSlots(rb) == { s \in Slots : WriteAt(rb, s) /\ AddrField(rb[s]) = 0 }

\* The first slot from s on holding a write to address 0; BUFFER_SIZE if none
RECURSIVE FirstFrom(_, _)
FirstFrom(rb, s) ==
    IF s = BUFFER_SIZE THEN BUFFER_SIZE
    ELSE IF WriteAt(rb, s) /\ AddrField(rb[s]) = 0 THEN s
    ELSE FirstFrom(rb, s + 1)

First0(rb) == FirstFrom(rb, 0)

\* Per slot s, the number of write words from slot f0 up to s, s excluded:
\* the tuple's element s + 1
RECURSIVE RankFrom(_, _, _, _)
RankFrom(rb, f0, s, n) ==
    IF s = BUFFER_SIZE THEN <<>>
    ELSE <<n>> \o RankFrom(rb, f0, s + 1,
                           IF s >= f0 /\ WriteAt(rb, s) THEN n + 1 ELSE n)

\* Counted from the first write to address 0
Ranks(rb) == RankFrom(rb, First0(rb), 0, 0)

\* The write words from the first write to address 0 on
WritesFromStart(rb) ==
    UNION { { s \in Slots : s >= f0 /\ WriteAt(rb, s) } : f0 \in {First0(rb)} }

\* The write words from the first write to address 0 up to the sixteenth are
\* the packets 0,2,..,30 in order: no write to address 0 lies before the
\* sequence and no write word lies between its packets
Orderly(rb) ==
    \E r \in {Ranks(rb)}, W \in {WritesFromStart(rb)} :
        /\ \E s \in W : r[s + 1] = 15
        /\ \A s \in W : r[s + 1] <= 15 => AddrField(rb[s]) = 2 * r[s + 1]

\* The write words after the start whose address is not the expected one
Mismatches(rb) ==
    UNION { { s \in WritesFromStart(rb) : AddrField(rb[s]) # 2 * r[s + 1] } :
            r \in {Ranks(rb)} }

\* The first of them comes before the sequence is complete
HasMismatch(rb) ==
    \E M \in {Mismatches(rb)} : M # {} /\ Ranks(rb)[Min(M) + 1] <= 15

\* The least slot from `from` on holding a write to address a; BUFFER_SIZE if none
Find(rb, from, a) ==
    LET S == { s \in Slots : s >= from /\ WriteAt(rb, s) /\ AddrField(rb[s]) = a }
    IN  IF S = {} THEN BUFFER_SIZE ELSE Min(S)

\* The leftmost sixteen slots holding writes to 0,2,..,30 in increasing slot
\* order, as a tuple; shorter, or ending in BUFFER_SIZE, if there are none
RECURSIVE EmbedFrom(_, _, _)
EmbedFrom(rb, from, k) ==
    IF k = DATA_SLOTS THEN <<>>
    ELSE LET p == Find(rb, from, 2 * k)
         IN  IF p >= BUFFER_SIZE THEN <<BUFFER_SIZE>>
             ELSE <<p>> \o EmbedFrom(rb, p + 1, k + 1)

Embedding(rb) == EmbedFrom(rb, 0, 0)

HoldsSequence(rb) ==
    \E e \in {Embedding(rb)} : Len(e) = DATA_SLOTS /\ e[DATA_SLOTS] < BUFFER_SIZE

\* The four accessors have been called and have returned
Called == report.done

\* All four returned their sentinel
Sentinels ==
    /\ report.voltage = MinusOne
    /\ report.current = MinusOne
    /\ report.power = MinusOne
    /\ report.energy = -1

-----------------------------------------------------------------------------
(* C1 *)

\* C1, as stated: whenever the frame buffer holds sixteen write words with
\* addresses 0,2,..,30 in increasing slot order, whatever the other slots
\* hold, process_data_buffer returns true and data_buffer[k] is the masked
\* data byte of the word with address 2k.
C1_AnySequenceExtracts ==
    (Called /\ HoldsSequence(read_buffer)) =>
        \A e \in {Embedding(read_buffer)} :
            /\ scan.success
            /\ \A k \in Digits :
                  data_buffer[k] = SlotValue(k, read_buffer[e[k + 1]])

\* C1, amended: whenever the frame buffer holds such a sequence, no write to
\* address 0 lies before its first word and no write word lies between its
\* words, process_data_buffer returns true and data_buffer[k] is the data
\* byte of the word with address 2k, masked with 0x77 for k < 8 and 0xFF for
\* k >= 8; the slots after the sequence, the words of other commands and the
\* writes to other addresses before the sequence may hold anything.
C1_OrderlySequenceExtracts ==
    (Called /\ Orderly(read_buffer)) =>
        \A r \in {Ranks(read_buffer)} :
            /\ scan.success
            /\ scan.data_idx = DATA_SLOTS
            /\ \A s \in WritesFromStart(read_buffer) :
                  r[s + 1] <= 15 =>
                     data_buffer[r[s + 1]] = SlotValue(r[s + 1], read_buffer[s])

\* An orderly sequence, preceded by a write to a non-zero address, was extracted
C1_Witness ==
    /\ Called
    /\ Orderly(read_buffer)
    /\ scan.success
    /\ \E s \in Slots : s < First0(read_buffer) /\ WriteAt(read_buffer, s)
    /\ data_buffer[0] = 119
    /\ data_buffer[8] = 247

-----------------------------------------------------------------------------
(* C2 *)

\* C2: when no write word of the frame buffer has address 0,
\* process_data_buffer returns false after scanning all 32 slots, and
\* get_voltage, get_current and get_power return -1.0, get_energy -1.
C2_NoStartFails ==
    (Called /\ StartSlots(read_buffer) = {}) =>
        /\ ~scan.success
        /\ scan.i = BUFFER_SIZE
        /\ Sentinels

\* All four accessors returned their sentinel for a buffer that holds write
\* words, none to address 0
C2_Witness ==
    /\ Called
    /\ StartSlots(read_buffer) = {}
    /\ Cardinality({ s \in Slots : WriteAt(read_buffer, s) }) >= 15
    /\ report.voltage = MinusOne
    /\ report.energy = -1

-----------------------------------------------------------------------------
(* C3 *)

\* C3: once a write to address 0 has been seen, the first later write word
\* whose address is not the expected one (a repeated address 0 included)
\* aborts the scan at that slot with failure: no later slot is read or
\* stored, and a valid sequence further on does not make the call succeed.
C3_MismatchAborts ==
    (Called /\ HasMismatch(read_buffer)) =>
        \A m \in {Min(Mismatches(read_buffer))} :
        \A n \in {Ranks(read_buffer)[m + 1]} :
            /\ ~scan.success
            /\ scan.i = m
            /\ scan.data_idx = n
            /\ \A k \in Digits : k >= n => data_buffer[k] = 0
            /\ Sentinels

\* The scan aborted at a repeated address 0 that starts a complete sequence
C3_Witness ==
    /\ Called
    /\ HasMismatch(read_buffer)
    /\ ~scan.success
    /\ \E m \in {Min(Mismatches(read_buffer))} :
           /\ m + 15 < BUFFER_SIZE
           /\ \A k \in Digits : read_buffer[m + k] = SeqWord(k)
    /\ report.power = MinusOne

-----------------------------------------------------------------------------
(* C10 *)

DigitValue(d) == IF d < 10 THEN d ELSE 0

NumberOf(q) ==
    1000 * DigitValue(q[1]) + 100 * DigitValue(q[2])
       + 10 * DigitValue(q[3]) + DigitValue(q[4])

Matches(lut, pattern) == { j \in 1 .. 10 : lut[2][j] = pattern }

\* C10: when the four slots of a quantity hold the table patterns of the
\* digits d0..d3, the accumulator of the quantity is 1000*d0+100*d1+10*d2+d3;
\* each slot matches at most one table entry, and a slot that matches none
\* (a blank digit) contributes 0 and no error is signalled.
C10_DigitRoundTrip ==
    (Called /\ bus.shown) =>
        /\ scan.success
        /\ voltage_acc(data_buffer) = NumberOf(bus.v)
        /\ current_acc(data_buffer) = NumberOf(bus.c)
        /\ power_acc(data_buffer) = NumberOf(bus.p)
        /\ energy_acc(data_buffer) = NumberOf(bus.e)
        /\ \A k \in 0 .. 7 :
              Cardinality(Matches(data_digit_lut_1, data_buffer[k])) <= 1
        /\ \A k \in 8 .. 15 :
              Cardinality(Matches(data_digit_lut_2, data_buffer[k] \div 2)) <= 1
        /\ report.voltage = [num |-> NumberOf(bus.v), den |-> 100]
        /\ report.current = [num |-> NumberOf(bus.c), den |-> 100]
        /\ report.power.num = NumberOf(bus.p)
        /\ report.energy = NumberOf(bus.e) * (IF bus.x = 1 THEN 1000 ELSE 1)

\* The display 9 _ 4 7 (the second digit blank) was decoded to 9047
C10_Witness ==
    /\ Called
    /\ bus.shown
    /\ bus.v = <<9, 10, 4, 7>>
    /\ bus.x = 1
    /\ report.voltage = [num |-> 9047, den |-> 100]
    /\ report.current = [num |-> 7409, den |-> 100]
    /\ report.power = [num |-> 479, den |-> 10]
    /\ report.energy = 974000


-----------------------------------------------------------------------------
(* C4, C7, C9: histories of whole transactions *)

\* The slots the digits of a successful scan of rb were taken from: the first
\* sixteen write words from the first write to address 0 on
Taken(rb) ==
    UNION { { s \in WritesFromStart(rb) : r[s + 1] < DATA_SLOTS } :
            r \in {Ranks(rb)} }

\* C4: whenever the extraction succeeds, the sixteen slots it took its digits
\* from were all captured from one and the same burst of the meter.
C4_OneBurst ==
    (Called /\ scan.success) =>
        \A T \in {Taken(read_buffer)} :
            \A s, t \in T : tag[s].burst = tag[t].burst

\* C7: an extraction never succeeds with a digit taken from a slot whose
\* transaction ended after fewer than 17 clock edges.
C7_ShortCaptureCaught ==
    (Called /\ ~bus.stalled /\ scan.success) =>
        \A s \in Taken(read_buffer) : tag[s].bits = WORD_BITS

\* C9: once chip select stays low for good, all four accessors return their
\* sentinel in every later run of the loop.
C9_StallFails == (Called /\ bus.stalled) => Sentinels

-----------------------------------------------------------------------------
(* C8: clean transactions after an arbitrary history *)

\* C8: whatever the cursor, the bit index and the frame buffer were, once 32
\* clean words of back-to-back sequences have been captured, a run of the
\* loop between two transactions succeeds and no accessor returns its
\* sentinel.
C8_SelfHealing ==
    (Called /\ bus.n >= BUFFER_SIZE) =>
        /\ scan.success
        /\ report.voltage # MinusOne
        /\ report.current # MinusOne
        /\ report.power # MinusOne
        /\ report.energy # -1

\* The cursor started at slot 5; 32 clean words later every slot has been
\* rewritten and the sequence is found from slot 5 on
C8_Witness ==
    /\ Called
    /\ bus.n = BUFFER_SIZE
    /\ buffer_idx = 5
    /\ First0(read_buffer) = 5
    /\ \A s \in Slots : tag[s].bits = WORD_BITS
    /\ scan.success
    /\ ~Sentinels
    /\ report.energy # -1


-----------------------------------------------------------------------------
(* C5, C6: interrupts during a scan *)

\* The accessor that called has returned its sentinel
Sentinel == report[watch.by] = (IF watch.by = "energy" THEN -1 ELSE MinusOne)

\* C5: when a digit was stored from a slot that an ISR wrote between the
\* scan's reads of it, or from the slot of a transaction still being clocked
\* in, the extraction fails and the accessor returns its sentinel.
C5_TornFails == (Called /\ watch.torn) => (~scan.success /\ Sentinel)

\* C6: when the ISRs wrote, during the scan, only slots after the one the
\* scan stopped at, the success flag, the digit slots and the accessor's
\* value are those of the uninterrupted scan of the frame buffer as it was at
\* the call.
C6_UnreadWritesHarmless ==
    (Called /\ \A s \in watch.written : s > scan.i) =>
        \A ref \in {process_data_buffer(watch.rb0, watch.db0)} :
            /\ scan.success = ref.success
            /\ scan.i = ref.i
            /\ data_buffer = ref.db
            /\ report[watch.by] = Returned(watch.by, ref)

\* Sixteen words were in the buffer, a scan stopped at slot 15 with success
\* while the seventeenth transaction wrote slot 16
C6_Witness ==
    /\ Called
    /\ scan.success
    /\ scan.i = DATA_SLOTS - 1
    /\ watch.written = {DATA_SLOTS}
    /\ read_buffer[DATA_SLOTS] # watch.rb0[DATA_SLOTS]
    /\ ~Sentinel


-----------------------------------------------------------------------------
(* C11, C12, C13: the digit decoder *)

VoltageSlots(db, a, b, c, d) == db[0] = a /\ db[1] = b /\ db[2] = c /\ db[3] = d

\* C11 as stated: voltage slots 117, 5, 83, 23 decode to the accumulator 1023
\* and get_voltage returns 10.23.
C11_Decodes1023 ==
    (Called /\ scan.success /\ VoltageSlots(data_buffer, 117, 5, 83, 23)) =>
        /\ voltage_acc(data_buffer) = 1023
        /\ report.voltage = [num |-> 1023, den |-> 100]

\* C11: voltage slots 117, 5, 83, 23 are the table patterns of the digits
\* 0, 1, 2, 3; they decode to the accumulator 123 and get_voltage returns 1.23.
C11_Decodes0123 ==
    (Called /\ scan.success /\ VoltageSlots(data_buffer, 117, 5, 83, 23)) =>
        /\ LutSum(data_digit_lut_1, 117, 1) = 0
        /\ LutSum(data_digit_lut_1, 5, 1) = 1
        /\ LutSum(data_digit_lut_1, 83, 1) = 2
        /\ LutSum(data_digit_lut_1, 23, 1) = 3
        /\ voltage_acc(data_buffer) = 123
        /\ report.voltage = [num |-> 123, den |-> 100]

C11_Witness ==
    /\ Called
    /\ scan.success
    /\ VoltageSlots(data_buffer, 117, 5, 83, 23)
    /\ bus.v = <<0, 1, 2, 3>>
    /\ report.voltage = [num |-> 123, den |-> 100]

\* data_buffer with bit 0 of slot k set to b
WithBit0(db, k, b) == [db EXCEPT ![k] = 2 * (@ \div 2) + b]

\* C12: for the digit slots of every successful extraction and every slot k
\* of 8..15, setting bit 0 of slot k leaves the power and the energy
\* accumulator as they are with the bit clear; in slot 10 it divides the
\* returned power by 10, in slot 15 it multiplies the returned energy by
\* 1000, in every other slot it changes no returned value; the energy is at
\* most 9999000 and never negative.
C12_FlagScaling ==
    (Called /\ scan.success) =>
        \A k \in 8 .. 15 :
            \E f0 \in {[scan EXCEPT !.db = WithBit0(data_buffer, k, 0)]},
               f1 \in {[scan EXCEPT !.db = WithBit0(data_buffer, k, 1)]} :
                /\ power_acc(f1.db) = power_acc(f0.db)
                /\ energy_acc(f1.db) = energy_acc(f0.db)
                /\ get_voltage(f1) = get_voltage(f0)
                /\ get_current(f1) = get_current(f0)
                /\ IF k = 10
                   THEN /\ get_power(f0) = [num |-> power_acc(f0.db), den |-> 1]
                        /\ get_power(f1) = [num |-> power_acc(f0.db), den |-> 10]
                   ELSE get_power(f1) = get_power(f0)
                /\ IF k = 15
                   THEN get_energy(f1) = 1000 * get_energy(f0)
                   ELSE get_energy(f1) = get_energy(f0)
                /\ get_energy(f1) >= 0
                /\ get_energy(f1) <= 9999 * 1000
                /\ get_energy(f1) <= INT32_MAX

\* All flags set on a display of 9999 Wh: tenths of a watt and 9999000 Wh
C12_Witness ==
    /\ Called
    /\ scan.success
    /\ bus.shown
    /\ bus.x = 1
    /\ bus.e = <<9, 9, 9, 9>>
    /\ report.power.den = 10
    /\ report.energy = 9999000

\* C13 as stated: the buffer of the example display yields 120.50 V, 1.23 A,
\* 45.6 W and 789 Wh.
C13_Yields12050 ==
    (Called /\ read_buffer = ExampleBuffer) =>
        /\ report.voltage = [num |-> 12050, den |-> 100]
        /\ report.current = [num |-> 123, den |-> 100]
        /\ report.power = [num |-> 456, den |-> 10]
        /\ report.energy = 789

\* C13: get_voltage never returns more than 99.99; the buffer whose digits
\* spell 12.05 V, 1.23 A, 45.6 W and 789 Wh yields exactly these four values.
C13_Yields1205 ==
    Called =>
        /\ report.voltage.num <= 9999
        /\ report.voltage.num * 100 # 12050 * report.voltage.den
        /\ read_buffer = ExampleBuffer =>
              /\ scan.success
              /\ report.voltage = [num |-> 1205, den |-> 100]
              /\ report.current = [num |-> 123, den |-> 100]
              /\ report.power = [num |-> 456, den |-> 10]
              /\ report.energy = 789

C13_Witness ==
    /\ Called
    /\ read_buffer = ExampleBuffer
    /\ \A k \in Digits : AddrField(read_buffer[k]) = 2 * k /\ WriteAt(read_buffer, k)
    /\ report.voltage = [num |-> 1205, den |-> 100]
    /\ report.energy = 789


-----------------------------------------------------------------------------
(* C19, C20: what the scan skips and where it stores *)

\* Words of other commands, with the addresses 0, 2 and 30 among them
OtherWords == { 0, Word(4, 2, 129), Word(7, 0, 255), Word(6, 30, 1) }

ZeroSlots == [k \in Digits |-> 0]

\* C19: in every buffer, replacing a word whose command is not 5 by any
\* other such word leaves the success flag, the slot the scan stops at and
\* all sixteen digit slots unchanged.
C19_OtherCommandsIgnored ==
    Called =>
        \A s \in Slots :
            ~WriteAt(read_buffer, s) =>
                \A w \in OtherWords :
                    \E g \in {process_data_buffer([read_buffer EXCEPT ![s] = w],
                                                  ZeroSlots)} :
                        /\ g.success = scan.success
                        /\ g.i = scan.i
                        /\ g.db = data_buffer

\* A word of command 4 and address 2 lies between two words of a sequence
\* that was extracted
C19_Witness ==
    /\ Called
    /\ scan.success
    /\ read_buffer[3] = Word(4, 2, 129)
    /\ WriteAt(read_buffer, 2)
    /\ WriteAt(read_buffer, 4)
    /\ scan.i > DATA_SLOTS

\* The stores of one call, in order: the index and the address of each
RECURSIVE StoreLog(_, _)
StoreLog(f, rb) ==
    IF f.pc = "ret" THEN <<>>
    ELSE (IF f.pc = "data" THEN <<[idx |-> f.data_idx, addr |-> f.addr]>>
          ELSE <<>>) \o StoreLog(ScanStep(f, rb[f.i]), rb)

\* Every store goes to index address/2, within 0..15
InBounds(L) ==
    \A n \in 1 .. Len(L) :
        /\ L[n].idx \in Digits
        /\ 2 * L[n].idx = L[n].addr
        /\ L[n].idx = n - 1

\* Writes to an address above 30 and to an odd address, and the noise words
StrayWrites == { Word(WRITE_CMD, 32, 3), Word(WRITE_CMD, 1, 3) } \cup NoiseWords

\* C20: every store of a call goes to index address/2 within 0..15, also
\* when any one slot of the buffer holds a write to address 32, to an odd
\* address or to one of the addresses 0, 6 and 30 instead; a
\* call that returns true has stored all sixteen entries, so its data_buffer
\* is the same whatever data_buffer held before.
C20_StoresInBounds ==
    Called =>
        /\ \E L \in {StoreLog(Frame0(ZeroSlots), read_buffer)} :
              /\ InBounds(L)
              /\ scan.success => { L[n].idx : n \in 1 .. Len(L) } = Digits
        /\ scan.success =>
              process_data_buffer(read_buffer, [k \in Digits |-> 255]).db
                  = data_buffer
        /\ \A s \in Slots, w \in StrayWrites :
              InBounds(StoreLog(Frame0(ZeroSlots),
                                [read_buffer EXCEPT ![s] = w]))

\* A successful call after data_buffer was filled by an earlier one
C20_Witness ==
    /\ Called
    /\ scan.success
    /\ scan.data_idx = DATA_SLOTS
    /\ read_buffer[0] = 0
    /\ data_buffer[15] = SeqData(15)


-----------------------------------------------------------------------------
(* C18: a sequence across the end of the buffer *)

\* The sixteen ring-consecutive slots from o on hold the writes to 0,2,..,30,
\* and no other slot holds a write
RingSequenceAt(rb, o) ==
    /\ \A k \in Digits :
          /\ WriteAt(rb, (o + k) % BUFFER_SIZE)
          /\ AddrField(rb[(o + k) % BUFFER_SIZE]) = 2 * k
    /\ \A s \in Slots :
          (s - o + BUFFER_SIZE) % BUFFER_SIZE >= DATA_SLOTS => ~WriteAt(rb, s)

\* C18: a complete sequence in sixteen ring-consecutive slots is extracted,
\* wherever in the ring it starts and wherever the cursor is.
C18_RingOrder ==
    (Called /\ \E o \in Slots : RingSequenceAt(read_buffer, o)) =>
        (scan.success /\ ~Sentinels)


-----------------------------------------------------------------------------
(* C17: what each side writes *)

\* One ISR has run in this step
IsrRun == bus'.irqs = bus.irqs + 1

\* C17: no step changes a ring slot other than the one at the cursor; a run
\* of an ISR leaves data_buffer and the scan's locals alone, a run of the
\* clock ISR also the cursor and the attachment of the clock handler; a step
\* of the decode path leaves read_buffer, buffer_idx, read_digit and the
\* attachment alone.
C17_Frame ==
    [][ /\ \A s \in Slots : s # buffer_idx => read_buffer'[s] = read_buffer[s]
        /\ IsrRun => (data_buffer' = data_buffer /\ scan' = scan
                         /\ report' = report)
        /\ (IsrRun /\ bus'.j = bus.j + 1) =>
              (buffer_idx' = buffer_idx /\ clk_attached' = clk_attached)
        /\ (IsrRun /\ buffer_idx' # buffer_idx) =>
              (read_buffer' = read_buffer /\ read_digit' = read_digit)
        /\ (data_buffer' # data_buffer \/ scan' # scan \/ report' # report) =>
              isrVars' = isrVars ]_vars

\* Nine bits of a word have been clocked in while a scan, which has stored
\* digits, is under way
C17_Witness ==
    /\ watch.on
    /\ watch.written # {}
    /\ scan.data_idx > 0
    /\ cs_pin = 0
    /\ bus.j = 9
    /\ read_digit = 9

-----------------------------------------------------------------------------
(* C14, C15, C16: the bit sampler *)

\* The first j bits of the 17-bit word w, the others 0
Prefix(w, j) ==
    IF j >= WORD_BITS THEN w
    ELSE (w \div Pow2(WORD_BITS - j)) * Pow2(WORD_BITS - j)

\* The packet the meter sends in its transaction j, counted from 0
PacketOf(j) == MeterWord(1 + j \div DATA_SLOTS, j % DATA_SLOTS)

\* C14: every ring slot holds a value below 2^17; every clock edge handled
\* so far had a shift amount of 0 or more, the k-th of an interval 16-k, so
\* that the slot at the cursor holds the bits sampled in the interval so far,
\* most significant first; a slot with 17 bits sampled holds the packet.
C14_WordInvariant ==
    /\ \A s \in Slots : read_buffer[s] < 131072
    /\ read_digit <= WORD_BITS
    /\ cs_pin = 0 =>
          /\ read_digit = bus.j
          /\ read_buffer[buffer_idx] = Prefix(PacketOf(bus.n), bus.j)
    /\ \A s \in Slots :
          tag[s].bits = WORD_BITS => read_buffer[s] = PacketOf(s)

\* The first transaction whose word is still in the ring: the oldest of the
\* last 32, less the one a transaction in progress is overwriting
Oldest ==
    IF bus.n + (1 - cs_pin) > BUFFER_SIZE
    THEN bus.n + (1 - cs_pin) - BUFFER_SIZE
    ELSE 0

\* No run of a handler is waiting
Quiet == bus.cs_pending = 0 /\ bus.clk_pending = 0

\* C15: starting from cursor 0, whenever the handlers have caught up with
\* the lines the cursor is the number of completed chip-select-low intervals
\* modulo 32, and the bits clocked in each of the last 32 of them are in the
\* slot of that interval.
C15_Ring ==
    Quiet =>
        /\ buffer_idx \in Slots
        /\ buffer_idx = bus.n % BUFFER_SIZE
        /\ \A j \in Oldest .. (bus.n - 1) :
              read_buffer[j % BUFFER_SIZE]
                  = Prefix(PacketOf(j), tag[j % BUFFER_SIZE].bits)

\* C16: the clock handler is attached only while the chip-select line is
\* low, and it never runs while the line is high.
C16_AttachedOnlyWhileLow == (clk_attached => cs_pin = 0) /\ ~watch.stray

====
